---- MODULE Spec2Model ----
(***************************************************************************)
(* Model of scripts/pyannote-face.py: the two replay generators            *)
(* (getFaceGenerator, getLandmarkGenerator) that serve a timestamped       *)
(* annotation file in lockstep with a stream of query times, and the       *)
(* rectangle denormalisation done by getFaceGenerator.                     *)
(*                                                                         *)
(* Times are small naturals.  A record is identified by the index of its   *)
(* row in the file on disk; its geometry payload is a function of that row *)
(* and does not influence the control flow of the replay loop, except that *)
(* a landmark row without a single complete (x, y) pair makes the          *)
(* landmark generator raise.                                               *)
(***************************************************************************)
EXTENDS Integers, Sequences, FiniteSets, TLC

\* ---- bounds of the model ------------------------------------------------
MaxRows == 3
MaxTime == 3
MaxQueries == 3
MaxFields == 5
MaxSmallFrame == 16
MaxTrackId == 30
MaxDrawn == 2

\* ---- program constants ---------------------------------------------------
\* number of columns of a face-box file (names = [t, track, left, ...])
FaceFields == 7
\* Python's None (currentT before the first record, t before the first send)
None == -1
\* the larger of the two landmark indices of the nose line (lines 366-367)
NoseTip == 33

VARIABLES
    gen,        \* which generator function this instance runs
    file,       \* the rows of the annotation file, in on-disk order
    nfields,    \* number of whitespace separated fields of every row
    pc,         \* where the generator is suspended
    table,      \* the DataFrame the for loop iterates over
    idx,        \* position of the for loop in table (row being processed)
    faces,      \* the buffer: `faces` (line 111) or `shapes` (line 171)
    currentT,   \* time of the buffered group
    t,          \* the last value received by a yield
    log,        \* history: one entry per send(timestamp), query and reply
    frame_width, \* frame dimension used to denormalise
    pixel,      \* a pixel coordinate of the original rectangle
    double,     \* the flag of getFaceGenerator
    norm,       \* the coordinate as written in the file, in thousandths
    coord,      \* the coordinate of the rectangle built at line 121
    stage,      \* position in the encode / decode round trip
    video,      \* the timestamps of the frames of the video
    output,     \* the lines written by the landmark driver
    shape,      \* the landmark generator created by get_fl (a generator record)
    drawn,      \* per frame processed by overlay, what was drawn for each face
    phase       \* which driver runs

genVars == <<gen, file, nfields, pc, table, idx, faces, currentT, t, log>>
rectVars == <<frame_width, pixel, double, norm, coord, stage>>
pipeVars == <<video, output, shape, drawn, phase>>
vars == <<gen, file, nfields, pc, table, idx, faces, currentT, t, log,
          frame_width, pixel, double, norm, coord, stage,
          video, output, shape, drawn, phase>>

\* ---- inputs ---------------------------------------------------------------
Times == 1..MaxTime
QueryTimes == 0..MaxTime
RECURSIVE SeqsUpTo(_, _)
SeqsUpTo(S, n) ==
    IF n = 0 THEN {<<>>}
    ELSE LET shorter == SeqsUpTo(S, n - 1)
         IN  shorter \cup {Append(s, x) : s \in {u \in shorter : Len(u) = n - 1}, x \in S}
\* a file: one row per (time, track), the tracks visible at one time numbered
\* 0, 1, ... in the order of their rows
Tracked(ts) ==
    [i \in DOMAIN ts |->
        [t |-> ts[i], track |-> Cardinality({j \in 1..(i - 1) : ts[j] = ts[i]})]]
Files == {Tracked(ts) : ts \in SeqsUpTo(Times, MaxRows)}

\* ---- parsing --------------------------------------------------------------
\* read_table keeps the on-disk order and numbers the rows
ReadTable(f) == [i \in 1..Len(f) |-> [t |-> f[i].t, track |-> f[i].track, row |-> i]]

RECURSIVE InsertByT(_, _)
InsertByT(sorted, r) ==
    IF sorted = <<>> THEN <<r>>
    ELSE IF sorted[Len(sorted)].t <= r.t THEN Append(sorted, r)
    ELSE Append(InsertByT(SubSeq(sorted, 1, Len(sorted) - 1), r), sorted[Len(sorted)])

RECURSIVE SortValues(_)
\* DataFrame.sort_values('t'): ascending by t, rows of equal t keep their order
SortValues(tab) ==
    IF tab = <<>> THEN <<>>
    ELSE InsertByT(SortValues(SubSeq(tab, 1, Len(tab) - 1)), tab[Len(tab)])

\* the table the replay loop of each generator iterates over
ParseFace(f) == SortValues(ReadTable(f))
ParseLandmark(f) == ReadTable(f)
Parse(g, f) == IF g = "face" THEN ParseFace(f) ELSE ParseLandmark(f)

\* read_table without column names raises EmptyDataError on a file without rows
ReadFails(g, f) == g = "landmark" /\ f = <<>>

\* pairwise(row[2:]): zip(a, a) pairs the coordinates and drops an unpaired last one
Pairwise(ncoords) == ncoords \div 2
NPoints(d) == Pairwise(d - 2)
\* landmarks[:, 0] on np.float32([]) (no pair at all) raises IndexError
RowFails(g, d) == g = "landmark" /\ NPoints(d) = 0

\* ---- the replay loop --------------------------------------------------------
\* A generator G is the record of its locals: [gen, nfields, table, pc, idx,
\* faces, currentT].

\* the tuple appended to the buffer: (identifier, face, status) at line 125 / 144,
\* (identifier, landmarks) at line 186 / 205; row stands for the geometry of the
\* record, points is the number of rows of the landmarks array
Item(G, rec) ==
    IF G.gen = "face" THEN [identifier |-> rec.track, row |-> rec.row]
    ELSE [identifier |-> rec.track, row |-> rec.row, points |-> NPoints(G.nfields)]

\* line 124 / 185: the record belongs to the buffered group
SameGroup(T, cT) == T = cT \/ cT = None

NotDueEarly(cT, q) == cT > q + 1

\* line 136 / 197: the buffered group is not due yet
NotDue(cT, q) == cT > q

Suspended(p, i, fs, cT, reply) ==
    [pc |-> p, idx |-> i, faces |-> fs, currentT |-> cT, reply |-> reply]

ExhaustedFlushing(i, fs, cT, q) == Suspended("exhausted", i, fs, cT, <<cT, fs>>)

\* lines 148-149 / 209-210
Exhausted(i, fs, cT, q) == Suspended("exhausted", i, fs, cT, <<q, <<>>>>)

WaitStampingQuery(i, fs, cT, q) ==
    IF NotDue(cT, q)
    THEN Suspended("wait", i, fs, cT, <<q, <<>>>>)
    ELSE Suspended("deliver", i, fs, cT, <<q, fs>>)

\* lines 133-141 / 194-202: the while loop up to its next yield
Wait(i, fs, cT, q) ==
    IF NotDue(cT, q)
    THEN Suspended("wait", i, fs, cT, <<q, <<>>>>)
    ELSE Suspended("deliver", i, fs, cT, <<cT, fs>>)

RECURSIVE ForLoop(_, _, _, _, _)
\* lines 114-131 / 174-192: the for loop from row i up to its next yield
ForLoop(G, i, fs, cT, q) ==
    IF i > Len(G.table) THEN Exhausted(i, fs, cT, q)
    ELSE IF RowFails(G.gen, G.nfields) THEN Suspended("error", i, fs, cT, <<>>)
    ELSE IF SameGroup(G.table[i].t, cT)
         THEN ForLoop(G, i + 1, Append(fs, Item(G, G.table[i])), G.table[i].t, q)
         ELSE Wait(i, fs, cT, q)

ResetKeeping(G, q) ==
    ForLoop(G, G.idx + 1, Append(G.faces, Item(G, G.table[G.idx])), G.table[G.idx].t, q)

ResetKeepingTime(G, q) ==
    ForLoop(G, G.idx + 1, <<Item(G, G.table[G.idx])>>, G.currentT, q)

\* lines 144-146 / 205-207: reset the buffer to the record that closed the group
Reset(G, q) ==
    ForLoop(G, G.idx + 1, <<Item(G, G.table[G.idx])>>, G.table[G.idx].t, q)

\* generator.send(q): run from the yield the generator is suspended at to the next
Resume(G, q) ==
    CASE G.pc = "first" -> ForLoop(G, 1, <<>>, None, q)
      [] G.pc = "wait" -> Wait(G.idx, G.faces, G.currentT, q)
      [] G.pc = "deliver" -> Reset(G, q)
      [] G.pc = "exhausted" -> Exhausted(G.idx, G.faces, G.currentT, q)

\* the generator whose locals are the variables gen, nfields, table, ...
Self ==
    [gen |-> gen, nfields |-> nfields, table |-> table, pc |-> pc, idx |-> idx,
     faces |-> faces, currentT |-> currentT]

\* a generator object before its first send(None)
NewGen(g, d) ==
    [gen |-> g, nfields |-> d, table |-> <<>>, pc |-> "start", idx |-> 0,
     faces |-> <<>>, currentT |-> None, log |-> <<>>]

\* no generator (shape = None in get_fl)
NoGen == NewGen("none", 0)

\* G.send(None) on the file f
PrimeGen(G, f) ==
    IF ReadFails(G.gen, f) THEN [G EXCEPT !.pc = "error"]
    ELSE [G EXCEPT !.pc = "first", !.table = Parse(G.gen, f)]

\* G.send(q); the reply is the last entry of the log of the result
SendGen(G, q) ==
    LET s == Resume(G, q)
    IN  [G EXCEPT !.pc = s.pc, !.idx = s.idx, !.faces = s.faces,
                  !.currentT = s.currentT,
                  !.log = IF s.pc = "error" THEN @
                          ELSE Append(@, [q |-> q, T |-> s.reply[1], recs |-> s.reply[2]])]

\* ---- the overlay ---------------------------------------------------------------
\* lines 310-318
COLORS ==
    << <<240, 163, 255>>, <<0, 117, 220>>, <<153, 63, 0>>, <<76, 0, 92>>,
       <<25, 25, 25>>, <<0, 92, 49>>, <<43, 206, 72>>, <<255, 204, 153>>,
       <<128, 128, 128>>, <<148, 255, 181>>, <<143, 124, 0>>, <<157, 204, 0>>,
       <<194, 0, 136>>, <<0, 51, 128>>, <<255, 164, 5>>, <<255, 168, 187>>,
       <<66, 102, 0>>, <<255, 0, 16>>, <<94, 241, 242>>, <<0, 153, 143>>,
       <<224, 255, 102>>, <<116, 10, 255>>, <<153, 0, 0>>, <<255, 255, 128>>,
       <<255, 255, 0>>, <<255, 80, 5>> >>

ColorOffByOne(identifier) == COLORS[(identifier % (Len(COLORS) - 1)) + 1]

\* line 344: COLORS[identifier % len(COLORS)]; Python's % with a positive
\* modulus is never negative, and the tuple is indexed from 1 here
Color(identifier) == COLORS[(identifier % Len(COLORS)) + 1]

\* lines 343-368: the loop over the faces of one frame; withShape tells whether
\* --shape was given, lms is then the reply of the landmark generator.  The
\* result is what is drawn for each face, or an IndexError when landmarks[i]
\* or landmark[33] is out of range.
DrawFaces(fs, withShape, lms) ==
    IF withShape /\ \E i \in DOMAIN fs : i > Len(lms) \/ lms[i].points <= NoseTip
    THEN [error |-> TRUE, faces |-> <<>>]
    ELSE [error |-> FALSE,
          faces |-> [i \in DOMAIN fs |->
                       [identifier |-> fs[i].identifier,
                        color |-> Color(fs[i].identifier),
                        nose |-> IF withShape THEN lms[i].identifier ELSE None]]]

\* ---- rectangle coordinates ------------------------------------------------------
\* '{left:.3f}' in FACE_TEMPLATE: three decimals, i.e. thousandths
Thousand == 1000
\* frame dimensions the round trip is explored for
FrameSizes == (1..MaxSmallFrame) \cup {100, 320, 640, 1280, 1920, 2560, 3840}

RECURSIVE QuotientError(_, _, _, _)
\* sign of (double(n / den) - n / den) for 0 < n < den, by long division:
\* bits is the number of significant bits produced so far (53 in a double),
\* last the last bit produced; 1: rounded up, 0: exact, -1: rounded down
QuotientError(n, den, bits, last) ==
    IF bits = 53
    THEN IF 2 * n > den THEN 1
         ELSE IF n = 0 THEN 0
         ELSE IF 2 * n < den THEN -1
         ELSE IF last = 1 THEN 1 ELSE -1
    ELSE LET bit == IF 2 * n >= den THEN 1 ELSE 0
         IN  QuotientError((2 * n) % den, den,
                           IF bits > 0 \/ bit = 1 THEN bits + 1 ELSE 0, bit)

\* the normalized coordinate of a pixel: pixel / frame dimension
Normalize(x, W) == [num |-> x, den |-> W]

\* '{:.3f}'.format(num / den) read as a number of thousandths: the double
\* quotient correctly rounded to three decimals, an exact half to the even digit
Format3(r) ==
    LET k0 == (Thousand * r.num) \div r.den
        rem == (Thousand * r.num) % r.den
    IN  IF 2 * rem < r.den THEN k0
        ELSE IF 2 * rem > r.den THEN k0 + 1
        ELSE LET err == QuotientError(r.num, r.den, 0, 0)
             IN  IF err > 0 THEN k0 + 1
                 ELSE IF err < 0 THEN k0
                 ELSE IF k0 % 2 = 0 THEN k0 ELSE k0 + 1

RECURSIVE Float32Bits(_, _, _)
\* k / 1000 rounded to the 24 bit significand of np.float32 (round to nearest,
\* ties to even), as <<m, e>> standing for m / 2^e; n is the remainder of the
\* long division of k by 1000
Float32Bits(m, n, e) ==
    IF m >= 2^23
    THEN IF 2 * n > Thousand THEN <<m + 1, e>>
         ELSE IF 2 * n = Thousand THEN <<m + (m % 2), e>>
         ELSE <<m, e>>
    ELSE Float32Bits(2 * m + (IF 2 * n >= Thousand THEN 1 ELSE 0),
                     (2 * n) % Thousand, e + 1)

\* dtype np.float32 of the columns left, top, right, bottom
Float32(k) == IF k = 0 THEN <<0, 0>> ELSE Float32Bits(k \div Thousand, k % Thousand, 0)

\* left * frame_width, exact in double precision: whole part and what is left
\* of it (frac = <<0, 0>> iff the product is a whole number)
Product(f, W) ==
    IF f[1] = 0 THEN [whole |-> 0, frac |-> <<0, 0>>]
    ELSE LET a == f[1] \div 4096
             b == f[1] % 4096
             hi == a * W + ((b * W) \div 4096)
             lo == (b * W) % 4096
             scale == 2^(f[2] - 12)
         IN  [whole |-> hi \div scale, frac |-> <<hi % scale, lo>>]

\* int(...)
Truncate(p) == [whole |-> p.whole, frac |-> <<0, 0>>]

DenormalizeTruncFirst(k, W) == Truncate(Product(Float32(Thousand * (k \div Thousand)), W))

\* lines 116-119: left = int(left * frame_width)
Denormalize(k, W) == Truncate(Product(Float32(k), W))

\* lines 109 and 121: dlib.drectangle if double else dlib.rectangle, built from
\* the denormalized coordinate
Rectangle(dbl, k, W) ==
    [kind |-> IF dbl THEN "drectangle" ELSE "rectangle",
     whole |-> Denormalize(k, W).whole,
     frac |-> Denormalize(k, W).frac]

\* ---- actions ------------------------------------------------------------------
GenInit ==
    /\ gen \in {"face", "landmark"}
    /\ file \in Files
    /\ nfields \in IF gen = "face" THEN {FaceFields}
                   ELSE IF file = <<>> THEN {0} ELSE 2..MaxFields
    /\ pc = "start"
    /\ table = <<>>
    /\ idx = 0
    /\ faces = <<>>
    /\ currentT = None
    /\ t = None
    /\ log = <<>>

RectIdle ==
    /\ frame_width = 0
    /\ pixel = 0
    /\ double = FALSE
    /\ norm = 0
    /\ coord = [kind |-> "rectangle", whole |-> 0, frac |-> <<0, 0>>]
    /\ stage = "idle"

PipeIdle ==
    /\ video = <<>>
    /\ output = <<>>
    /\ shape = NoGen
    /\ drawn = <<>>
    /\ phase = "idle"

Init == GenInit /\ RectIdle /\ PipeIdle

\* generator.send(None): run up to the first yield (line 107 / 169)
PrimeStep ==
    /\ pc = "start"
    /\ IF ReadFails(gen, file)
       THEN pc' = "error" /\ table' = table
       ELSE pc' = "first" /\ table' = Parse(gen, file)
    /\ UNCHANGED <<gen, file, nfields, idx, faces, currentT, t, log>>

Prime == PrimeStep /\ UNCHANGED rectVars /\ UNCHANGED pipeVars

\* generator.send(q) with a query time
SendStep(q) ==
    /\ pc \in {"first", "wait", "deliver", "exhausted"}
    /\ LET s == Resume(Self, q)
       IN  /\ pc' = s.pc
           /\ idx' = s.idx
           /\ faces' = s.faces
           /\ currentT' = s.currentT
           /\ t' = q
           /\ log' = IF s.pc = "error" THEN log
                     ELSE Append(log, [q |-> q, T |-> s.reply[1], recs |-> s.reply[2]])
    /\ UNCHANGED <<gen, file, nfields, table>>

Send(q) ==
    /\ Len(log) < MaxQueries
    /\ SendStep(q)
    /\ UNCHANGED rectVars
    /\ UNCHANGED pipeVars

Next == Prime \/ \E q \in QueryTimes : Send(q)

Spec == Init /\ [][Next]_vars

\* ---- the round trip of one rectangle coordinate ---------------------------------
GenIdle ==
    /\ gen = "face"
    /\ file = <<>>
    /\ nfields = FaceFields
    /\ pc = "idle"
    /\ table = <<>>
    /\ idx = 0
    /\ faces = <<>>
    /\ currentT = None
    /\ t = None
    /\ log = <<>>

RectInit ==
    /\ GenIdle
    /\ PipeIdle
    /\ frame_width \in FrameSizes
    /\ pixel \in 0..frame_width
    /\ double \in BOOLEAN
    /\ norm = 0
    /\ coord = [kind |-> "rectangle", whole |-> 0, frac |-> <<0, 0>>]
    /\ stage = "pixel"

\* track: the coordinate is normalized and written with FACE_TEMPLATE
Encode ==
    /\ stage = "pixel"
    /\ norm' = Format3(Normalize(pixel, frame_width))
    /\ stage' = "file"
    /\ UNCHANGED <<frame_width, pixel, double, coord>>
    /\ UNCHANGED genVars
    /\ UNCHANGED pipeVars

\* getFaceGenerator: the coordinate is read back and denormalized
Decode ==
    /\ stage = "file"
    /\ coord' = Rectangle(double, norm, frame_width)
    /\ stage' = "rect"
    /\ UNCHANGED <<frame_width, pixel, double, norm>>
    /\ UNCHANGED genVars
    /\ UNCHANGED pipeVars

NextRect == Encode \/ Decode

SpecRect == RectInit /\ [][NextRect]_vars

\* ---- the overlay of faces with any identifier, without landmarks ------------------
TrackIds == (-MaxTrackId)..MaxTrackId

OverlayInit ==
    /\ GenIdle
    /\ RectIdle
    /\ video = <<>>
    /\ output = <<>>
    /\ shape = NoGen
    /\ drawn = <<>>
    /\ phase = "overlay"

\* overlay(get_frame, timestamp) for a frame showing one face with the given
\* identifier, shape = None
OverlayFace(identifier) ==
    /\ phase = "overlay"
    /\ Len(drawn) < MaxDrawn
    /\ drawn' = Append(drawn, DrawFaces(<<[identifier |-> identifier]>>, FALSE, <<>>).faces)
    /\ UNCHANGED <<video, output, shape, phase>>
    /\ UNCHANGED genVars
    /\ UNCHANGED rectVars

NextOverlay == \E identifier \in TrackIds : OverlayFace(identifier)

SpecOverlay == OverlayInit /\ [][NextOverlay]_vars

\* ---- the two generators on one file, sent the same queries -------------------------
Live == {"first", "wait", "deliver", "exhausted"}

TwinInit ==
    /\ GenInit
    /\ gen = "face"
    /\ RectIdle
    /\ video = <<>>
    /\ output = <<>>
    /\ shape \in {NewGen("landmark", d) :
                     d \in IF file = <<>> THEN {0} ELSE 2..MaxFields}
    /\ drawn = <<>>
    /\ phase = "twin"

\* faceGenerator.send(None) and landmarkGenerator.send(None), lines 324 and 329
TwinPrime ==
    /\ phase = "twin"
    /\ PrimeStep
    /\ shape' = PrimeGen(shape, file)
    /\ UNCHANGED <<video, output, drawn, phase>>
    /\ UNCHANGED rectVars

\* both generators are sent the query q, as at lines 337 and 340; a generator
\* that has raised is finished
TwinSend(q) ==
    /\ phase = "twin"
    /\ Len(log) < MaxQueries
    /\ SendStep(q)
    /\ shape' = IF shape.pc \in Live THEN SendGen(shape, q) ELSE shape
    /\ UNCHANGED <<video, output, drawn, phase>>
    /\ UNCHANGED rectVars

NextTwin == TwinPrime \/ \E q \in QueryTimes : TwinSend(q)

SpecTwin == TwinInit /\ [][NextTwin]_vars

\* ---- the landmark driver, then the demo on the file it wrote -------------------------
\* the frames of a video: strictly increasing timestamps
Videos ==
    {v \in SeqsUpTo(QueryTimes, MaxTime + 1) :
        \A i, j \in DOMAIN v : i < j => v[i] < v[j]}

\* number of points returned by face._get_landmarks: the smallest scheme for
\* which the indices of the nose line exist
PredictorPoints == NoseTip + 1
\* number of fields of the lines written at lines 269-274
LandmarkFields == 2 + 2 * PredictorPoints

WriteLinesFrameTime(T, timestamp, fs) ==
    [j \in DOMAIN fs |-> [t |-> timestamp, track |-> fs[j].identifier]]

\* lines 265-274: one line '{t:.3f} {identifier:d} x y ...' per face of the
\* reply (T, fs) to the frame at timestamp; the times of the model are written
\* and read back unchanged by the three decimals
WriteLines(T, timestamp, fs) ==
    [j \in DOMAIN fs |-> [t |-> T, track |-> fs[j].identifier]]

DemoInit ==
    /\ GenInit
    /\ gen = "face"
    /\ RectIdle
    /\ video \in Videos
    /\ output = <<>>
    /\ shape = NoGen
    /\ drawn = <<>>
    /\ phase = "landmark"

\* landmark, lines 248-256: the face generator is created and primed
LandmarkOpen ==
    /\ phase = "landmark"
    /\ PrimeStep
    /\ UNCHANGED pipeVars
    /\ UNCHANGED rectVars

\* landmark, lines 258-276: the next frame of the video
LandmarkFrame ==
    /\ phase = "landmark"
    /\ Len(log) < Len(video)
    /\ SendStep(video[Len(log) + 1])
    /\ output' = output \o WriteLines(log'[Len(log')].T, video[Len(log) + 1],
                                     log'[Len(log')].recs)
    /\ UNCHANGED <<video, shape, drawn, phase>>
    /\ UNCHANGED rectVars

\* demo / get_fl, lines 321-329, once the landmark driver is through the video:
\* a new face generator on the tracking file and a landmark generator on the
\* file written by the driver, both primed
GetFl ==
    /\ phase = "landmark"
    /\ pc \in Live
    /\ Len(log) = Len(video)
    /\ pc' = "first"
    /\ table' = Parse(gen, file)
    /\ idx' = 0
    /\ faces' = <<>>
    /\ currentT' = None
    /\ t' = None
    /\ log' = <<>>
    /\ shape' = PrimeGen(NewGen("landmark", LandmarkFields), output)
    /\ phase' = IF shape'.pc = "error" THEN "error" ELSE "demo"
    /\ UNCHANGED <<gen, file, nfields, video, output, drawn>>
    /\ UNCHANGED rectVars

\* overlay, lines 333-370, for the next frame of the video (shift = 0)
Overlay ==
    /\ phase = "demo"
    /\ Len(log) < Len(video)
    /\ SendStep(video[Len(log) + 1])
    /\ shape' = SendGen(shape, video[Len(log) + 1])
    /\ LET d == DrawFaces(log'[Len(log')].recs, TRUE, shape'.log[Len(log')].recs)
       IN  IF d.error
           THEN phase' = "error" /\ drawn' = drawn
           ELSE phase' = phase /\ drawn' = Append(drawn, d.faces)
    /\ UNCHANGED <<video, output>>
    /\ UNCHANGED rectVars

NextDemo == LandmarkOpen \/ LandmarkFrame \/ GetFl \/ Overlay

SpecDemo == DemoInit /\ [][NextDemo]_vars

\* ---- vocabulary of the properties ------------------------------------------------
SortedByT(tab) == \A i, j \in DOMAIN tab : i < j => tab[i].t <= tab[j].t
Monotone == \A i, j \in DOMAIN log : i < j => log[i].q <= log[j].q
NonEmpty == {i \in DOMAIN log : log[i].recs # <<>>}
RowsIn(i) == {log[i].recs[j].row : j \in DOMAIN log[i].recs}
GroupTimes == {file[i].t : i \in DOMAIN file}
GroupRows(g) == {i \in DOMAIN file : file[i].t = g}
Answered == pc \in {"wait", "deliver", "exhausted"}
Abs(n) == IF n < 0 THEN -n ELSE n

\* C1: exactly-once delivery.  With time-sorted records and non-decreasing
\* queries that have reached every group time, once the generator is exhausted
\* (it will never deliver again) every group of the file, the last one included,
\* has been returned in exactly one non-empty reply.
C1_ExactlyOnce ==
    (/\ pc = "exhausted"
     /\ SortedByT(table)
     /\ Monotone
     /\ \A g \in GroupTimes : log[Len(log)].q >= g)
    => \A g \in GroupTimes :
           Cardinality({i \in NonEmpty : RowsIn(i) = GroupRows(g)}) = 1

\* C2: group atomicity.  With time-sorted records and any query sequence, a
\* non-empty reply holds records of one original timestamp only, and no
\* timestamp has records in two different non-empty replies.
C2_GroupAtomicity ==
    SortedByT(table) =>
        /\ \A i \in NonEmpty : \A r1, r2 \in RowsIn(i) : file[r1].t = file[r2].t
        /\ \A i, j \in NonEmpty :
               i # j => \A r1 \in RowsIn(i), r2 \in RowsIn(j) : file[r1].t # file[r2].t

\* a group of two landmark records, held back by a first query and then
\* delivered in one reply
C2_Witness ==
    /\ gen = "landmark"
    /\ SortedByT(table)
    /\ Len(log) >= 2
    /\ log[1].recs = <<>>
    /\ Len(log[2].recs) = 2

\* C3: monotonic catch-up.  With time-sorted records and non-decreasing
\* queries, a group whose time a query has reached has been delivered by that
\* query at the latest (stated for the groups that are followed by another
\* group, the ones the replay loop does deliver).
C3_CatchUp ==
    (SortedByT(table) /\ Monotone /\ Answered)
    => \A g \in GroupTimes : \A i \in DOMAIN log :
           (log[i].q >= g /\ \E h \in GroupTimes : h > g)
           => \E j \in NonEmpty : j <= i /\ RowsIn(j) = GroupRows(g)

\* C4: single-group file.  When all rows of the face file share one time g,
\* the first query with t >= g is answered with the whole group and every
\* other query is answered empty.
C4_SingleGroup ==
    (gen = "face" /\ Answered /\ Cardinality(GroupTimes) = 1)
    => LET g == CHOOSE x \in GroupTimes : TRUE
           reached == {i \in DOMAIN log : log[i].q >= g}
       IN  \A i \in DOMAIN log :
               IF i \in reached /\ \A k \in reached : i <= k
               THEN /\ log[i].T = g
                    /\ Len(log[i].recs) = Len(file)
                    /\ RowsIn(i) = DOMAIN file
               ELSE log[i].recs = <<>>

\* C5: exhaustion persistence.  A query received in the exhausted state is
\* answered (t, empty) with t the query, the generator stays in the exhausted
\* state ready for the next query, and buffer, currentT and the position in the
\* records are unchanged.
C5_ExhaustionPersists ==
    [][pc = "exhausted" =>
          /\ pc' = "exhausted"
          /\ Len(log') = Len(log) + 1
          /\ log'[Len(log')] = [q |-> t', T |-> t', recs |-> <<>>]
          /\ UNCHANGED <<faces, currentT, idx, table>>]_vars

\* three queries of a one-row file, the last two in the exhausted state
C5_Witness ==
    /\ pc = "exhausted"
    /\ Len(file) = 1
    /\ faces # <<>>
    /\ Len(log) = 3
    /\ log[2].q = MaxTime
    /\ log[3].q = 0

\* C6: empty input.  With a file without records the generator never fails:
\* the first query takes it to the exhausted state and every reply is empty.
C6_EmptyInput ==
    file = <<>> =>
        /\ pc \in {"start", "first", "exhausted", "idle"}
        /\ \A i \in DOMAIN log : log[i].recs = <<>>

\* C7: parser ordering.  The table handed to the replay loop is sorted
\* ascending by time, whatever the order of the rows on disk.
C7_ParserSorted == pc \in {"first", "wait", "deliver", "exhausted"} => SortedByT(table)

\* C8: landmark count inference.  Once the first row of a landmark file has
\* been processed: rows with 2 + 2N fields (N >= 1) give records of N points,
\* rows with 2 + 2N + 1 fields make the generator fail.
C8_LandmarkCount ==
    (gen = "landmark" /\ file # <<>> /\ nfields >= 4 /\ pc \notin {"start", "first"})
    => IF (nfields - 2) % 2 = 0
       THEN /\ pc # "error"
            /\ \A j \in DOMAIN faces : 2 + 2 * faces[j].points = nfields
       ELSE pc = "error"

\* C9: rectangle precision flag.  With double = True the coordinate of the
\* rectangle keeps the fractional part of normalized coordinate x frame
\* dimension, with double = False it is a whole number.
C9_PrecisionFlag ==
    stage = "rect" =>
        IF double
        THEN coord.frac = Product(Float32(norm), frame_width).frac
        ELSE coord.frac = <<0, 0>>

\* C10 as stated: for every frame dimension the decoded coordinate is within
\* one pixel of the original one.
C10_RoundTripAnyFrame == stage = "rect" => Abs(coord.whole - pixel) <= 1

\* C10 amended: for frame dimensions below 2000 pixels, a pixel coordinate
\* written with three decimals and decoded with the same frame dimension is
\* within one pixel of the original one.
C10_RoundTrip ==
    (stage = "rect" /\ frame_width < 2 * Thousand) => Abs(coord.whole - pixel) <= 1

\* a coordinate of a 1920 pixel frame that comes back one pixel smaller
C10_Witness ==
    /\ stage = "rect"
    /\ frame_width = 1920
    /\ pixel > 0
    /\ coord.whole = pixel - 1

\* C12: no duplication.  For both generators, any file and any query sequence,
\* no record is contained in two replies, nor twice in one reply.
C12_NoDuplication ==
    /\ \A i \in NonEmpty : Cardinality(RowsIn(i)) = Len(log[i].recs)
    /\ \A i, j \in NonEmpty : i # j => RowsIn(i) \cap RowsIn(j) = {}

\* two groups delivered by the landmark generator from a file that is not
\* sorted on disk, the second one to a smaller query than the first
C12_Witness ==
    /\ gen = "landmark"
    /\ ~SortedByT(table)
    /\ \E i, j \in NonEmpty : i < j /\ log[j].q < log[i].q

\* C13: the wait step.  A query t < currentT received while a closed group is
\* buffered is answered (t, empty) and leaves buffer, currentT and the position
\* in the records unchanged, the generator waiting again; the first query with
\* t >= currentT ends the wait with the delivery of the group.
C13_WaitUnchanged ==
    [][pc = "wait" =>
          IF t' < currentT
          THEN /\ pc' = "wait"
               /\ log' = Append(log, [q |-> t', T |-> t', recs |-> <<>>])
               /\ UNCHANGED <<faces, currentT, idx, table>>
          ELSE /\ pc' = "deliver"
               /\ log'[Len(log')].recs = faces]_vars

\* a closed group held back by three queries in a row
C13_Witness ==
    /\ pc = "wait"
    /\ currentT = MaxTime - 1
    /\ Len(log) = 3
    /\ \A i \in 1..3 : log[i].recs = <<>> /\ log[i].q < currentT

\* C14: reply shape.  The reply to a query t is (t, empty) or (g, records) with
\* records not empty, all of original time g, and g <= t; on the send after a
\* delivery the buffer is restarted from the record that closed the group:
\* it holds that record first, then only records of its time, and currentT is
\* that time.
C14_ReplyShape ==
    [][/\ log' # log =>
              LET r == log'[Len(log')]
              IN  /\ r.q = t'
                  /\ \/ r.recs = <<>> /\ r.T = r.q
                     \/ /\ r.recs # <<>>
                        /\ \A j \in DOMAIN r.recs : file[r.recs[j].row].t = r.T
                        /\ r.T <= r.q
       /\ pc = "deliver" =>
              /\ faces' # <<>>
              /\ faces'[1].row = table[idx].row
              /\ currentT' = table[idx].t
              /\ \A j \in DOMAIN faces' : file[faces'[j].row].t = currentT'
              /\ \A j \in DOMAIN faces', k \in DOMAIN faces : faces'[j].row # faces[k].row]_vars

\* a group delivered with its own time to a later query, and the send after it
C14_Witness ==
    /\ Len(log) = 2
    /\ log[1].recs # <<>>
    /\ log[1].T < log[1].q
    /\ Len(faces) = 2

\* C15: buffer invariant.  Whenever a generator waits for a query after the
\* first one, its buffer is empty or holds exactly the records of the file whose
\* time is currentT, whatever the order of the rows on disk.
C15_BufferInvariant ==
    Answered =>
        \/ faces = <<>>
        \/ {faces[j].row : j \in DOMAIN faces} = GroupRows(currentT)

\* C16: delivery order.  With time-sorted records and any query sequence, the
\* group times of successive non-empty replies strictly increase, and the
\* reply to one query holds one group at most.
C16_DeliveryOrder ==
    SortedByT(table) =>
        /\ \A i, j \in NonEmpty : i < j => log[i].T < log[j].T
        /\ \A i \in NonEmpty : \E g \in GroupTimes : RowsIn(i) \subseteq GroupRows(g)

\* two groups delivered to the same query time, one after the other
C16_Witness ==
    /\ SortedByT(table)
    /\ Len(log) >= 2
    /\ log[1].recs # <<>>
    /\ log[2].recs # <<>>
    /\ log[1].q = log[2].q

\* C11: overlay colour.  The colour drawn for a face is entry trackId mod 26 of
\* the 26 entry palette (so the index is in range for every integer trackId),
\* a trackId has the same colour in every frame, and two trackIds have the
\* same colour only if they are congruent modulo 26.
C11_Colour ==
    LET Drawn == {drawn[f][i] : f \in DOMAIN drawn, i \in {1}}
    IN  /\ Len(COLORS) = 26
        /\ \A e \in Drawn :
               /\ (e.identifier % 26) + 1 \in DOMAIN COLORS
               /\ e.color = COLORS[(e.identifier % 26) + 1]
        /\ \A e1, e2 \in Drawn :
               /\ e1.identifier = e2.identifier => e1.color = e2.color
               /\ e1.color = e2.color => (e1.identifier - e2.identifier) % 26 = 0

\* a negative trackId and a trackId 26 above it, drawn in the same colour in
\* two frames
C11_Witness ==
    /\ Len(drawn) = 2
    /\ drawn[1][1].identifier < 0
    /\ drawn[2][1].identifier = drawn[1][1].identifier + 26
    /\ drawn[1][1].color = drawn[2][1].color

\* C17: the two generators are the same state machine.  On a file of well
\* formed rows in any on-disk order and for any query sequence, the face
\* generator and the landmark generator give the same replies: as many, with
\* the same reply times and the same set of trackIds in each.
C17_SameReplies ==
    (phase = "twin" /\ file # <<>> /\ shape.nfields >= 4)
    => /\ Len(shape.log) = Len(log)
       /\ \A i \in DOMAIN log :
              /\ i \in DOMAIN shape.log
              /\ shape.log[i].T = log[i].T
              /\ {shape.log[i].recs[j].identifier : j \in DOMAIN shape.log[i].recs}
                     = {log[i].recs[j].identifier : j \in DOMAIN log[i].recs}

\* C18: demo overlay pairing.  With the landmark file written by the landmark
\* driver from the same tracking file and the same frames (shift = 0), the
\* demo never fails on landmarks[i]: at every frame the landmark reply is as
\* long as the face reply and its i-th entry has the trackId of the i-th face.
C18_OverlayPairing ==
    (phase \in {"demo", "error"} /\ output # <<>>)
    => /\ phase # "error"
       /\ \A f \in DOMAIN log :
              /\ Len(shape.log[f].recs) = Len(log[f].recs)
              /\ \A i \in DOMAIN log[f].recs :
                     shape.log[f].recs[i].identifier = log[f].recs[i].identifier

RECURSIVE LinesOf(_)
LinesOf(replies) ==
    IF replies = <<>> THEN <<>>
    ELSE LET r == replies[Len(replies)]
         IN  LinesOf(SubSeq(replies, 1, Len(replies) - 1))
                 \o [j \in DOMAIN r.recs |-> [t |-> r.T, track |-> r.recs[j].identifier]]

\* C19: landmark driver output.  While the driver runs, the file holds one
\* line per face of every non-empty reply so far, in reply order, stamped with
\* the group time of the reply; its lines are in non-decreasing time order and
\* the lines of one time are contiguous, for any row order of the tracking file.
C19_LandmarkOutput ==
    /\ phase = "landmark" => output = LinesOf(log)
    /\ SortedByT(output)
    /\ \A i, j, k \in DOMAIN output :
           (i < j /\ j < k /\ output[i].t = output[k].t) => output[j].t = output[i].t

\* a tracking file that is not sorted on disk, two groups written, the first
\* one delivered to a frame later than its time
C19_Witness ==
    /\ phase = "landmark"
    /\ ~SortedByT(ReadTable(file))
    /\ Len(output) >= 2
    /\ output[1].t < output[Len(output)].t
    /\ \E i \in NonEmpty : log[i].T < log[i].q
====
